---- MODULE Spec2Model ----
(***************************************************************************)
(* State-machine model of the BBRv3 congestion-control module              *)
(* src/tcp_bbr3.c: the per-connection estimator (struct bbr3), the part    *)
(* of the transport socket it reads and writes (tcp_sock), the jiffies     *)
(* clock, and the congestion-control callbacks registered in               *)
(* tcp_bbr3_cong_ops.                                                      *)
(*                                                                         *)
(* TLC integers are 32-bit signed, so an unsigned 32-bit C value v whose   *)
(* full range matters (min_rtt_us, full_bandwidth, the jiffies stamps) is  *)
(* the pair <<v \div 2^24, v % 2^24>>; a 64-bit bandwidth sample is the    *)
(* same pair with an unbounded first component.  Window counts (snd_cwnd,  *)
(* target_cwnd, prior_cwnd, acked) stay below 2^31 within the bounds of    *)
(* the model and are plain integers.                                       *)
(***************************************************************************)
EXTENDS Integers, Sequences, FiniteSets, TLC

(***************************************************************************)
(* Constants of the source.                                                *)
(***************************************************************************)
BBR_SCALE == 8
BBR_UNIT == 2 ^ BBR_SCALE
BW_SCALE == 24
BW_UNIT == 2 ^ BW_SCALE

min_rtt_win_sec == 5

\* Kernel tick rate; the source uses it through min_rtt_win_sec * HZ.
HZ == 1000

BBR_STARTUP == "BBR_STARTUP"
BBR_DRAIN == "BBR_DRAIN"
BBR_PROBE_BW == "BBR_PROBE_BW"
BBR_PROBE_RTT == "BBR_PROBE_RTT"

bbr_mode == {BBR_STARTUP, BBR_DRAIN, BBR_PROBE_BW, BBR_PROBE_RTT}

bbr_pacing_gain ==
    << (BBR_UNIT * 5) \div 4, (BBR_UNIT * 3) \div 4,
       BBR_UNIT, BBR_UNIT, BBR_UNIT, BBR_UNIT, BBR_UNIT, BBR_UNIT >>

bbr_high_gain == (BBR_UNIT * 2885) \div 1000 + 1
bbr_drain_gain == (BBR_UNIT * 1000) \div 2885
bbr_cwnd_gain == BBR_UNIT * 2

TCP_CA_Open == 0

CA_EVENT_TX_START == "CA_EVENT_TX_START"
CA_EVENT_CWND_RESTART == "CA_EVENT_CWND_RESTART"
CA_EVENT_COMPLETE_CWR == "CA_EVENT_COMPLETE_CWR"
CA_EVENT_LOSS == "CA_EVENT_LOSS"

tcp_ca_event ==
    {CA_EVENT_TX_START, CA_EVENT_CWND_RESTART, CA_EVENT_COMPLETE_CWR, CA_EVENT_LOSS}

\* extensions a diagnostic request can ask for in the ext bit mask
INET_DIAG_VEGASINFO == "INET_DIAG_VEGASINFO"
INET_DIAG_BBRINFO == "INET_DIAG_BBRINFO"

\* sizeof(struct tcp_bbr_info): five u32 fields
SizeofBbrInfo == 20

(***************************************************************************)
(* Unsigned 32-bit arithmetic on pairs <<v \div 2^24, v % 2^24>>.          *)
(***************************************************************************)
Min(a, b) == IF a <= b THEN a ELSE b
Max(a, b) == IF a >= b THEN a ELSE b

\* ~0U
U32_MAX == << 255, BW_UNIT - 1 >>

\* (u32)n for an integer 0 <= n < 2^31
ToU32(n) == << (n \div BW_UNIT) % 256, n % BW_UNIT >>

\* a < b for unsigned a, b (also for a 64-bit a with an unbounded first part)
ULt(a, b) == a[1] < b[1] \/ (a[1] = b[1] /\ a[2] < b[2])

\* (u32)(a + n), n a small non-negative integer
U32Add(a, n) ==
    LET s == a[2] + n
    IN  << (a[1] + s \div BW_UNIT) % 256, s % BW_UNIT >>

\* (u32)(a - b)
U32Sub(a, b) ==
    LET d == a[2] - b[2]
    IN  << (a[1] - b[1] + d \div BW_UNIT) % 256, d % BW_UNIT >>

\* after(a, b): (s32)(b - a) < 0, the kernel's wrap-safe "a is later than b"
after(a, b) == U32Sub(b, a)[1] >= 128

\* ((u32)(t * gain)) >> BBR_SCALE for 0 <= t < 2^31, 0 <= gain < 2^15
U32MulShift(t, gain) ==
    LET th == t \div 65536
        tl == t % 65536
        pl == tl * gain
        ph == (th * gain + pl \div 65536) % 65536
    IN  ph * 256 + (pl % 65536) \div BBR_UNIT

\* floor(r * 2^24 / d) for 0 <= r < d < 2^23, by long division in base 2^8
Frac24(r, d) ==
    LET x1 == r * 256
        x2 == (x1 % d) * 256
        x3 == (x2 % d) * 256
    IN  (x1 \div d) * 65536 + (x2 \div d) * 256 + (x3 \div d)

\* (u64)delivered * BW_UNIT / interval_us, as <<integer part, 24-bit fraction>>
BwSample(delivered, interval_us) ==
    << delivered \div interval_us, Frac24(delivered % interval_us, interval_us) >>

\* (u64)bw * rtt / BW_UNIT for a u32 bw and 0 <= rtt < 2^19
BwTimesRtt(bw, rtt) ==
    LET lh == bw[2] \div 4096
        ll == bw[2] % 4096
    IN  bw[1] * rtt + (lh * rtt + (ll * rtt) \div 4096) \div 4096


(***************************************************************************)
(* Bounds of the model: the per-connection configuration and the inputs    *)
(* the environment (the transport's ACK processing, the clock) supplies.   *)
(***************************************************************************)
\* tp->mss_cache of the connection
MssCache == 1460

\* tp->snd_cwnd_clamp of the connection
SndCwndClamp == 12000

\* jiffies advance in steps of this many ticks
TickJiffies == 3000

\* the clock advances at most this many steps
MaxTicks == 2

\* rs->delivered / rs->interval_us pairs the transport reports
DeliveredHigh == 14600
DeliveredLow == 7300
DeliveredBurst == 512
IntervalUs == 100000

\* rs->rtt_us values
RttLow == 50000
RttHigh == 80000

\* rs->acked_sacked value of an ACK that newly acknowledges data
AckedLarge == 5000

\* tcp_packets_in_flight(tp) values
InFlightLow == 2
InFlightHigh == 6000

\* the clock starts this many ticks before the 32-bit jiffies counter wraps
JiffiesToWrap == 4000

\* tp->snd_ssthresh of the connection; the module only reads it
SndSsthresh == 65535

BwInputs ==
    { << DeliveredHigh, IntervalUs >>, << DeliveredLow, IntervalUs >>,
      << DeliveredBurst, 1 >>, << -1, IntervalUs >>, << DeliveredHigh, 0 >> }

RttInputs == { -1, 0, RttLow, RttHigh }

AckedInputs == { 0, AckedLarge }

InFlightInputs == { InFlightLow, InFlightHigh }

\* struct rate_sample, the fields the module reads
RateSamples ==
    { [ delivered |-> p[1], interval_us |-> p[2], rtt_us |-> r, acked_sacked |-> a ] :
        p \in BwInputs, r \in RttInputs, a \in AckedInputs }

InitialJiffies == U32Sub(<< 0, 0 >>, ToU32(JiffiesToWrap))

(***************************************************************************)
(* State.                                                                  *)
(***************************************************************************)
VARIABLES
    bbr,       \* struct bbr3, the estimator (inet_csk_ca(sk))
    tp,        \* struct tcp_sock: snd_cwnd, snd_cwnd_clamp, mss_cache, snd_ssthresh
    jiffies,   \* tcp_jiffies32
    last,      \* history: the most recent callback, its rtt_us and acked_sacked,
               \* the RTT filter it found, the packets in flight it found and the
               \* value it returned
    stream     \* history: the run of identical valid samples since bbr3_init,
               \* followed under StreamSpec

vars == << bbr, tp, jiffies, last, stream >>

(***************************************************************************)
(* Helpers of the source.                                                  *)
(***************************************************************************)
tcp_init_cwnd(t) == Min(10, Max(2, 4380 \div t.mss_cache))

\* variant: half the window, without the floor of 2 packets
tcp_cwnd_reduction_target_no_floor(t) == t.snd_cwnd \div 2

tcp_cwnd_reduction_target(t) == Max(t.snd_cwnd \div 2, 2)

(***************************************************************************)
(* bbr3_init                                                               *)
(***************************************************************************)
bbr3_init_bbr(now) ==
    [ min_rtt_us             |-> U32_MAX,
      min_rtt_stamp          |-> now,
      probe_rtt_done_stamp   |-> << 0, 0 >>,
      full_bandwidth         |-> << 0, 0 >>,
      target_cwnd            |-> 0,
      prior_cwnd             |-> 0,
      cycle_start            |-> 0,
      pacing_gain            |-> bbr_high_gain,
      cwnd_gain              |-> bbr_cwnd_gain,
      mode                   |-> BBR_STARTUP,
      prev_ca_state          |-> TCP_CA_Open,
      full_bandwidth_reached |-> FALSE,
      round_start            |-> FALSE,
      packet_conservation    |-> FALSE,
      probe_rtt_round_done   |-> FALSE,
      has_seen_rtt           |-> FALSE,
      full_bandwidth_count   |-> 0 ]

bbr3_init_tp(t) == [ t EXCEPT !.snd_cwnd = tcp_init_cwnd(t) ]

(***************************************************************************)
(* bbr3_update_min_rtt                                                     *)
(***************************************************************************)
\* variant: the filter never expires, only a smaller sample replaces the minimum
bbr3_update_min_rtt_no_expiry(b, rs, now) ==
    IF rs.rtt_us >= 0 /\ ULt(ToU32(rs.rtt_us), b.min_rtt_us)
    THEN [ b EXCEPT !.min_rtt_us = ToU32(rs.rtt_us),
                    !.min_rtt_stamp = now ]
    ELSE b

bbr3_update_min_rtt(b, rs, now) ==
    LET filter_expired ==
            after(now, U32Add(b.min_rtt_stamp, min_rtt_win_sec * HZ))
    IN  IF rs.rtt_us >= 0
           /\ (ULt(ToU32(rs.rtt_us), b.min_rtt_us) \/ filter_expired)
        THEN [ b EXCEPT !.min_rtt_us = ToU32(rs.rtt_us),
                        !.min_rtt_stamp = now ]
        ELSE b

(***************************************************************************)
(* bbr3_update_bw                                                          *)
(***************************************************************************)
\* variant: the plateau and the stall counter keep following the samples after
\* the latch is set
bbr3_update_bw_no_latch(b, rs) ==
    IF rs.delivered < 0 \/ rs.interval_us <= 0
    THEN b
    ELSE LET bw == BwSample(rs.delivered, rs.interval_us)
         IN  IF ~ULt(bw, b.full_bandwidth)
             THEN [ b EXCEPT !.full_bandwidth = << bw[1] % 256, bw[2] >>,
                             !.full_bandwidth_count = 0 ]
             ELSE LET n == (b.full_bandwidth_count + 1) % 256
                  IN  [ b EXCEPT !.full_bandwidth_count = n,
                                 !.full_bandwidth_reached = (@ \/ n >= 3) ]

bbr3_update_bw(b, rs) ==
    IF rs.delivered < 0 \/ rs.interval_us <= 0
    THEN b
    ELSE LET bw == BwSample(rs.delivered, rs.interval_us)
         IN  IF ~b.full_bandwidth_reached
             THEN IF ~ULt(bw, b.full_bandwidth)
                  THEN [ b EXCEPT !.full_bandwidth = << bw[1] % 256, bw[2] >>,
                                  !.full_bandwidth_count = 0 ]
                  ELSE LET n == (b.full_bandwidth_count + 1) % 256
                       IN  [ b EXCEPT !.full_bandwidth_count = n,
                                      !.full_bandwidth_reached = (n >= 3) ]
             ELSE b

(***************************************************************************)
(* bbr3_update_model                                                       *)
(***************************************************************************)
\* variant: STARTUP hands over to PROBE_BW directly, without draining
bbr3_update_model_skips_drain(b, t, rs, now, in_flight) ==
    LET b1 == bbr3_update_bw(b, rs)
        b2 == bbr3_update_min_rtt(b1, rs, now)
    IN  IF b2.mode = BBR_STARTUP /\ b2.full_bandwidth_reached
        THEN [ b2 EXCEPT !.mode = BBR_PROBE_BW,
                         !.pacing_gain = BBR_UNIT,
                         !.cwnd_gain = BBR_UNIT ]
        ELSE IF b2.mode = BBR_DRAIN /\ in_flight <= tcp_cwnd_reduction_target(t)
             THEN [ b2 EXCEPT !.mode = BBR_PROBE_BW,
                              !.pacing_gain = BBR_UNIT,
                              !.cwnd_gain = BBR_UNIT ]
             ELSE b2

\* variant: the STARTUP exit is decided on the latch as it stood before this
\* event's bandwidth update
bbr3_update_model_stale_exit(b, t, rs, now, in_flight) ==
    LET b1 == bbr3_update_bw(b, rs)
        b2 == bbr3_update_min_rtt(b1, rs, now)
    IN  CASE b2.mode = BBR_STARTUP ->
                IF b.full_bandwidth_reached
                THEN [ b2 EXCEPT !.mode = BBR_DRAIN,
                                 !.pacing_gain = bbr_drain_gain,
                                 !.cwnd_gain = bbr_high_gain ]
                ELSE b2
          [] b2.mode = BBR_DRAIN ->
                IF in_flight <= tcp_cwnd_reduction_target(t)
                THEN [ b2 EXCEPT !.mode = BBR_PROBE_BW,
                                 !.pacing_gain = BBR_UNIT,
                                 !.cwnd_gain = BBR_UNIT ]
                ELSE b2
          [] b2.mode = BBR_PROBE_BW -> b2
          [] b2.mode = BBR_PROBE_RTT ->
                IF after(now, b2.probe_rtt_done_stamp)
                THEN [ b2 EXCEPT !.mode = BBR_PROBE_BW,
                                 !.pacing_gain = BBR_UNIT ]
                ELSE b2

\* variant: entering DRAIN brings cwnd_gain down to 1x at once
bbr3_update_model_drain_cuts_cwnd_gain(b, t, rs, now, in_flight) ==
    LET b1 == bbr3_update_bw(b, rs)
        b2 == bbr3_update_min_rtt(b1, rs, now)
    IN  IF b2.mode = BBR_STARTUP /\ b2.full_bandwidth_reached
        THEN [ b2 EXCEPT !.mode = BBR_DRAIN,
                         !.pacing_gain = bbr_drain_gain,
                         !.cwnd_gain = BBR_UNIT ]
        ELSE IF b2.mode = BBR_DRAIN /\ in_flight <= tcp_cwnd_reduction_target(t)
             THEN [ b2 EXCEPT !.mode = BBR_PROBE_BW,
                              !.pacing_gain = BBR_UNIT,
                              !.cwnd_gain = BBR_UNIT ]
             ELSE IF b2.mode = BBR_PROBE_RTT /\ after(now, b2.probe_rtt_done_stamp)
                  THEN [ b2 EXCEPT !.mode = BBR_PROBE_BW,
                                   !.pacing_gain = BBR_UNIT ]
                  ELSE b2

bbr3_update_model(b, t, rs, now, in_flight) ==
    LET b1 == bbr3_update_bw(b, rs)
        b2 == bbr3_update_min_rtt(b1, rs, now)
    IN  CASE b2.mode = BBR_STARTUP ->
                IF b2.full_bandwidth_reached
                THEN [ b2 EXCEPT !.mode = BBR_DRAIN,
                                 !.pacing_gain = bbr_drain_gain,
                                 !.cwnd_gain = bbr_high_gain ]
                ELSE b2
          [] b2.mode = BBR_DRAIN ->
                IF in_flight <= tcp_cwnd_reduction_target(t)
                THEN [ b2 EXCEPT !.mode = BBR_PROBE_BW,
                                 !.pacing_gain = BBR_UNIT,
                                 !.cwnd_gain = BBR_UNIT ]
                ELSE b2
          [] b2.mode = BBR_PROBE_BW -> b2
          [] b2.mode = BBR_PROBE_RTT ->
                IF after(now, b2.probe_rtt_done_stamp)
                THEN [ b2 EXCEPT !.mode = BBR_PROBE_BW,
                                 !.pacing_gain = BBR_UNIT ]
                ELSE b2

(***************************************************************************)
(* bbr3_set_cwnd: returns the estimator and the socket after the call.     *)
(***************************************************************************)
\* variant: the headroom of 3 segments is left out
BdpTarget_no_headroom(b, t, bw, gain) ==
    U32MulShift(BwTimesRtt(bw, b.min_rtt_us[2]), gain)

\* target_cwnd of the BDP branch: bdp, scaled by gain, plus headroom
BdpTarget(b, t, bw, gain) ==
    U32MulShift(BwTimesRtt(bw, b.min_rtt_us[2]), gain) + 3 * t.mss_cache

\* variant: outside STARTUP the window jumps to the target, whatever was acked
bbr3_set_cwnd_jumps_to_target(b, t, acked, bw, gain) ==
    IF acked = 0
    THEN [ bbr |-> [ b EXCEPT !.target_cwnd = 0 ], tp |-> t ]
    ELSE LET model_known == ULt(b.min_rtt_us, U32_MAX) /\ bw # << 0, 0 >>
             target_cwnd ==
                 IF b.mode # BBR_STARTUP /\ model_known
                 THEN BdpTarget(b, t, bw, gain)
                 ELSE 0
             cwnd ==
                 IF b.mode # BBR_STARTUP /\ model_known
                 THEN target_cwnd
                 ELSE t.snd_cwnd + acked
         IN  [ bbr |-> [ b EXCEPT !.target_cwnd = target_cwnd ],
               tp  |-> [ t EXCEPT !.snd_cwnd =
                                     Min(Max(cwnd, 4), t.snd_cwnd_clamp) ] ]

bbr3_set_cwnd(b, t, acked, bw, gain) ==
    IF acked = 0
    THEN [ bbr |-> [ b EXCEPT !.target_cwnd = 0 ], tp |-> t ]
    ELSE LET model_known == ULt(b.min_rtt_us, U32_MAX) /\ bw # << 0, 0 >>
             target_cwnd ==
                 IF b.mode # BBR_STARTUP /\ model_known
                 THEN BdpTarget(b, t, bw, gain)
                 ELSE 0
             cwnd ==
                 IF b.mode = BBR_STARTUP
                 THEN t.snd_cwnd + acked
                 ELSE IF model_known
                      THEN Min(target_cwnd, t.snd_cwnd + acked)
                      ELSE t.snd_cwnd + acked
         IN  [ bbr |-> [ b EXCEPT !.target_cwnd = target_cwnd ],
               tp  |-> [ t EXCEPT !.snd_cwnd =
                                     Min(Max(cwnd, 4), t.snd_cwnd_clamp) ] ]

(***************************************************************************)
(* bbr3_main: one sample event (the cong_control callback).                *)
(***************************************************************************)
bbr3_main(b, t, rs, now, in_flight) ==
    LET b1 == bbr3_update_model(b, t, rs, now, in_flight)
        bw == b1.full_bandwidth
    IN  bbr3_set_cwnd(b1, t, rs.acked_sacked, bw, b1.cwnd_gain)

(***************************************************************************)
(* bbr3_undo_cwnd, bbr3_ssthresh, bbr3_cwnd_event                          *)
(***************************************************************************)
bbr3_ssthresh(t) == t.snd_ssthresh

\* variant: the snapshot is ignored, the current window is returned
bbr3_undo_cwnd_current_window(b, t) == t.snd_cwnd

bbr3_undo_cwnd(b, t) == Max(t.snd_cwnd, b.prior_cwnd)

bbr3_cwnd_event(b, t, event, app_limited) ==
    IF event = CA_EVENT_TX_START /\ app_limited
    THEN [ b EXCEPT !.prior_cwnd = t.snd_cwnd ]
    ELSE b

(***************************************************************************)
(* bbr3_get_info: the size returned and the tcp_bbr_info written for the   *)
(* request ext.  full_bandwidth is a u32, so full_bandwidth >> 32 shifts   *)
(* by the width of its type: the C standard leaves the result undefined,   *)
(* and bw_hi is one of the values a build produces for it.                 *)
(***************************************************************************)
ShiftByWidth(v) == { << 0, 0 >>, v }

InfoRequests == { {}, { INET_DIAG_BBRINFO }, { INET_DIAG_VEGASINFO } }

bbr3_get_info(b, ext, bw_hi) ==
    IF INET_DIAG_BBRINFO \in ext \/ INET_DIAG_VEGASINFO \in ext
    THEN [ size |-> SizeofBbrInfo,
           attr |-> INET_DIAG_BBRINFO,
           info |-> [ bbr_bw_lo       |-> b.full_bandwidth,
                      bbr_bw_hi       |-> bw_hi,
                      bbr_min_rtt     |-> b.min_rtt_us,
                      bbr_pacing_gain |-> b.pacing_gain,
                      bbr_cwnd_gain   |-> b.cwnd_gain ] ]
    ELSE [ size |-> 0 ]

(***************************************************************************)
(* History variables.  They record inputs and earlier values; no callback  *)
(* reads them.                                                             *)
(***************************************************************************)
\* the run of identical samples is counted up to this length, where it saturates
MaxStream == 4

NoStream == [ ok |-> FALSE, delivered |-> 0, interval_us |-> 0, n |-> 0 ]

EmptyStream == [ ok |-> TRUE, delivered |-> 0, interval_us |-> 0, n |-> 0 ]

StreamAfter(st, rs) ==
    IF /\ st.ok
       /\ rs.delivered > 0
       /\ rs.interval_us > 0
       /\ (st.n = 0 \/ (st.delivered = rs.delivered /\ st.interval_us = rs.interval_us))
    THEN [ ok |-> TRUE, delivered |-> rs.delivered, interval_us |-> rs.interval_us,
           n |-> Min(st.n + 1, MaxStream) ]
    ELSE NoStream

LastOther(op) ==
    [ op |-> op, rtt_us |-> -1, acked_sacked |-> 0,
      min_rtt_us |-> << 0, 0 >>, min_rtt_stamp |-> << 0, 0 >>,
      in_flight |-> -1, ret |-> 0 ]

\* a callback that returns the value ret to the transport
LastReturn(op, ret) == [ LastOther(op) EXCEPT !.ret = ret ]

\* a sample event, recorded by the packets in flight it found only
LastInFlight(in_flight) == [ LastOther("bbr3_main") EXCEPT !.in_flight = in_flight ]

LastSample(b, rs) ==
    [ op |-> "bbr3_main", rtt_us |-> rs.rtt_us, acked_sacked |-> rs.acked_sacked,
      min_rtt_us |-> b.min_rtt_us, min_rtt_stamp |-> b.min_rtt_stamp,
      in_flight |-> -1, ret |-> 0 ]

(***************************************************************************)
(* The state machine of the callbacks that write the estimator or the      *)
(* socket.  A sample event records in the history its rtt_us and           *)
(* acked_sacked and the RTT filter it found.                               *)
(***************************************************************************)
Init ==
    /\ jiffies = InitialJiffies
    /\ bbr = bbr3_init_bbr(InitialJiffies)
    /\ tp = bbr3_init_tp([ snd_cwnd |-> 0,
                           snd_cwnd_clamp |-> SndCwndClamp,
                           mss_cache |-> MssCache,
                           snd_ssthresh |-> SndSsthresh ])
    /\ last = LastOther("bbr3_init")
    /\ stream = EmptyStream

\* tcp_packets_in_flight(tp) is read in the BBR_DRAIN case only
InFlightAt(b) == IF b.mode = BBR_DRAIN THEN InFlightInputs ELSE { InFlightLow }

\* one sample event with rate sample rs and in_flight packets in flight
SampleStep(rs, in_flight) ==
    LET r == bbr3_main(bbr, tp, rs, jiffies, in_flight)
    IN  /\ bbr' = r.bbr
        /\ tp' = r.tp
        /\ last' = LastSample(bbr, rs)
        /\ UNCHANGED << jiffies, stream >>

\* the transport delivers a rate sample: tcp_bbr3_cong_ops.cong_control
OnSample ==
    \E rs \in RateSamples, f \in InFlightAt(bbr) : SampleStep(rs, f)

\* the transport signals a congestion event: tcp_bbr3_cong_ops.cwnd_event
OnCwndEvent ==
    \E ev \in tcp_ca_event, app_limited \in BOOLEAN :
        /\ bbr' = bbr3_cwnd_event(bbr, tp, ev, app_limited)
        /\ last' = LastOther("bbr3_cwnd_event")
        /\ UNCHANGED << tp, jiffies, stream >>

\* the clock advances
Tick ==
    /\ U32Sub(jiffies, InitialJiffies)[2] < MaxTicks * TickJiffies
    /\ jiffies' = U32Add(jiffies, TickJiffies)
    /\ last' = LastOther("tick")
    /\ UNCHANGED << bbr, tp, stream >>

Next == OnSample \/ OnCwndEvent \/ Tick

Spec == Init /\ [][Next]_vars

(***************************************************************************)
(* The same state machine, where a sample event records in the history     *)
(* the run of identical samples it extends or breaks.                      *)
(***************************************************************************)
SampleStream(rs, in_flight) ==
    LET r == bbr3_main(bbr, tp, rs, jiffies, in_flight)
    IN  /\ bbr' = r.bbr
        /\ tp' = r.tp
        /\ last' = LastOther("bbr3_main")
        /\ stream' = StreamAfter(stream, rs)
        /\ UNCHANGED jiffies

\* the transport delivers a rate sample: tcp_bbr3_cong_ops.cong_control
OnSampleStream ==
    \E rs \in RateSamples, f \in InFlightAt(bbr) : SampleStream(rs, f)

StreamNext == OnSampleStream \/ OnCwndEvent \/ Tick

StreamSpec == Init /\ [][StreamNext]_vars

(***************************************************************************)
(* The state machine with every callback of tcp_bbr3_cong_ops, the ones    *)
(* that only read included.  Here a sample event records in the history    *)
(* the packets in flight only, and the run of identical samples is not     *)
(* followed.                                                               *)
(***************************************************************************)
SampleCall(rs, in_flight) ==
    LET r == bbr3_main(bbr, tp, rs, jiffies, in_flight)
    IN  /\ bbr' = r.bbr
        /\ tp' = r.tp
        /\ last' = LastInFlight(in_flight)
        /\ UNCHANGED << jiffies, stream >>

\* the transport delivers a rate sample: tcp_bbr3_cong_ops.cong_control
OnSampleCall ==
    \E rs \in RateSamples, f \in InFlightAt(bbr) : SampleCall(rs, f)

\* the transport asks for the window to restore: tcp_bbr3_cong_ops.undo_cwnd
OnUndoCwnd ==
    /\ last' = LastReturn("bbr3_undo_cwnd", bbr3_undo_cwnd(bbr, tp))
    /\ UNCHANGED << bbr, tp, jiffies, stream >>

\* the transport asks for the slow-start threshold: tcp_bbr3_cong_ops.ssthresh
OnSsthresh ==
    /\ last' = LastReturn("bbr3_ssthresh", bbr3_ssthresh(tp))
    /\ UNCHANGED << bbr, tp, jiffies, stream >>

\* a diagnostic request reads the estimator: tcp_bbr3_cong_ops.get_info
OnGetInfo ==
    \E ext \in InfoRequests, bw_hi \in ShiftByWidth(bbr.full_bandwidth) :
        /\ last' = LastReturn("bbr3_get_info", bbr3_get_info(bbr, ext, bw_hi).size)
        /\ UNCHANGED << bbr, tp, jiffies, stream >>

CallbackNext ==
    OnSampleCall \/ OnCwndEvent \/ Tick \/ OnUndoCwnd \/ OnSsthresh \/ OnGetInfo

CallbackSpec == Init /\ [][CallbackNext]_vars

\* sample events keep arriving for as long as the connection lives
FairCallbackSpec == CallbackSpec /\ WF_vars(OnSampleCall)

TypeOK ==
    /\ bbr.mode \in bbr_mode
    /\ bbr.full_bandwidth_count \in 0..3
    /\ tp.snd_cwnd \in 0..SndCwndClamp

(***************************************************************************)
(* Properties.                                                             *)
(***************************************************************************)
\* the rate sample is invalid: interval <= 0 or delivered < 0
InvalidSample(rs) == rs.interval_us <= 0 \/ rs.delivered < 0

\* the window of the RTT filter, in jiffies, as an unsigned 32-bit value
RttWindow == ToU32(min_rtt_win_sec * HZ)

\* the age of the stored minimum at time now: (u32)(now - min_rtt_stamp)
MinRttAge(b, now) == U32Sub(now, b.min_rtt_stamp)

\* C1: over any sequence of events the phase only advances in the order
\* STARTUP -> DRAIN -> PROBE_BW: STARTUP is left only for DRAIN, DRAIN is left
\* only for PROBE_BW, and once the phase has left STARTUP no later event
\* returns it to STARTUP.
C1_PhaseOrder ==
    [][ /\ bbr.mode = BBR_STARTUP => bbr'.mode \in { BBR_STARTUP, BBR_DRAIN }
        /\ bbr.mode = BBR_DRAIN => bbr'.mode \in { BBR_DRAIN, BBR_PROBE_BW }
        /\ bbr.mode # BBR_STARTUP => bbr'.mode # BBR_STARTUP ]_vars

\* a sample event has just moved the connection on to PROBE_BW, after it
\* went through STARTUP and DRAIN
C1_Witness ==
    /\ last.op = "bbr3_main"
    /\ bbr.mode = BBR_PROBE_BW
    /\ bbr.full_bandwidth_reached

\* C2: in every state reached by bbr3_init followed by any sequence of sample
\* events, the stored target_cwnd is >= the 4-segment floor and <= the
\* connection's maximum window snd_cwnd_clamp.
C2_TargetCwndBounded ==
    /\ bbr.target_cwnd >= 4
    /\ bbr.target_cwnd <= tp.snd_cwnd_clamp

\* C3: a sample event whose rate sample is invalid (interval <= 0 or
\* delivered < 0) mutates nothing: the bandwidth estimate and stall counter,
\* min_rtt and its timestamp, the phase, both gains, target_cwnd and the
\* applied congestion window all keep their values.
C3_InvalidSampleMutatesNothing ==
    [][ \A rs \in RateSamples, f \in InFlightInputs :
            (InvalidSample(rs) /\ SampleStep(rs, f)) =>
                /\ bbr'.full_bandwidth = bbr.full_bandwidth
                /\ bbr'.full_bandwidth_count = bbr.full_bandwidth_count
                /\ bbr'.min_rtt_us = bbr.min_rtt_us
                /\ bbr'.min_rtt_stamp = bbr.min_rtt_stamp
                /\ bbr'.mode = bbr.mode
                /\ bbr'.pacing_gain = bbr.pacing_gain
                /\ bbr'.cwnd_gain = bbr.cwnd_gain
                /\ bbr'.target_cwnd = bbr.target_cwnd
                /\ tp'.snd_cwnd = tp.snd_cwnd ]_vars

\* C4: on every sample event min_rtt is replaced by the incoming RTT, and its
\* timestamp set to now, exactly when the RTT sample is valid and either it
\* is smaller than the current min_rtt or the current min_rtt is older than
\* the RTT window; otherwise both fields are unchanged.  So min_rtt does not
\* grow unless the prior minimum had expired.
C4_MinRttWindowed ==
    [][ last'.op = "bbr3_main" =>
                LET rtt_us == last'.rtt_us
                    expired == ULt(RttWindow, MinRttAge(bbr, jiffies))
                    smaller == ULt(ToU32(rtt_us), bbr.min_rtt_us)
                    replace == rtt_us >= 0 /\ (smaller \/ expired)
                IN  /\ replace =>
                          /\ bbr'.min_rtt_us = ToU32(rtt_us)
                          /\ bbr'.min_rtt_stamp = jiffies
                    /\ ~replace =>
                          /\ bbr'.min_rtt_us = bbr.min_rtt_us
                          /\ bbr'.min_rtt_stamp = bbr.min_rtt_stamp
                    /\ ~expired => ~ULt(bbr.min_rtt_us, bbr'.min_rtt_us) ]_vars

\* a minimum of 50 ms recorded two clock steps (six seconds) ago has just been
\* replaced by a sample of 80 ms
C4_Witness ==
    /\ last.op = "bbr3_main"
    /\ last.min_rtt_us = ToU32(RttLow)
    /\ last.rtt_us = RttHigh
    /\ U32Sub(jiffies, last.min_rtt_stamp) = ToU32(2 * TickJiffies)
    /\ bbr.min_rtt_us = ToU32(RttHigh)
    /\ bbr.min_rtt_stamp = jiffies

\* the sample rate of the run of identical samples, as a 64-bit value
StreamRate == BwSample(stream.delivered, stream.interval_us)

\* C5: from a freshly initialised estimator, for a stream of identical valid
\* samples (whose rate fits the 32-bit field), the bandwidth estimate equals
\* the sample rate after at most 2 samples, full_bandwidth_reached is true
\* once 3 samples that do not improve on the estimate have been processed
\* (the 4th sample), and by the end of the stream STARTUP has been left.
C5_IdenticalStreamPlateau ==
    (stream.ok /\ stream.n >= 1 /\ StreamRate[1] < 256) =>
        /\ stream.n >= 2 => bbr.full_bandwidth = StreamRate
        /\ stream.n >= 4 => bbr.full_bandwidth_reached
        /\ stream.n >= MaxStream =>
              bbr.full_bandwidth_reached /\ bbr.mode # BBR_STARTUP

\* C6: across any sequence of sample events the bandwidth estimate
\* full_bandwidth never decreases.
C6_BandwidthNeverDecreases ==
    [][ ~ULt(bbr'.full_bandwidth, bbr.full_bandwidth) ]_vars

\* C7: a sample event in PROBE_BW that finds the min-RTT estimate older than
\* the RTT window enters PROBE_RTT, schedules probe_rtt_done_stamp and drops
\* the window to the 4-segment floor; a sample event in PROBE_RTT after
\* probe_rtt_done_stamp returns to PROBE_BW with pacing_gain 1x.
C7_ProbeRttCycle ==
    [][ last'.op = "bbr3_main" =>
            /\ (bbr.mode = BBR_PROBE_BW
                /\ ULt(RttWindow, MinRttAge(bbr, jiffies))) =>
                    /\ bbr'.mode = BBR_PROBE_RTT
                    /\ after(bbr'.probe_rtt_done_stamp, jiffies)
                    /\ tp'.snd_cwnd = 4
            /\ (bbr.mode = BBR_PROBE_RTT
                /\ after(jiffies, bbr.probe_rtt_done_stamp)) =>
                    /\ bbr'.mode = BBR_PROBE_BW
                    /\ bbr'.pacing_gain = BBR_UNIT ]_vars

\* no event sequence reaches PROBE_RTT
ProbeRttNeverEntered == bbr.mode # BBR_PROBE_RTT

\* C8: a sample whose RTT is non-positive (rtt <= 0) leaves min_rtt and its
\* timestamp unchanged, whether or not the current minimum has expired.
C8_NonPositiveRttIgnored ==
    [][ (last'.op = "bbr3_main" /\ last'.rtt_us <= 0) =>
            /\ bbr'.min_rtt_us = bbr.min_rtt_us
            /\ bbr'.min_rtt_stamp = bbr.min_rtt_stamp ]_vars

\* the estimator holds a model: min_rtt is known and the bandwidth non-zero
ModelKnown(b) == ULt(b.min_rtt_us, U32_MAX) /\ b.full_bandwidth # << 0, 0 >>

\* prior_window + acked, floored at 4 segments and capped at the maximum
AckedWindow(t, acked) == Min(Max(t.snd_cwnd + acked, 4), t.snd_cwnd_clamp)

\* the reference window of the estimator b for the socket t before the event:
\* min((bw * min_rtt / BW_UNIT) * cwnd_gain >> 8) + 3 * MSS, prior + acked),
\* floored at 4 segments and capped at the maximum
ReferenceWindow(b, t, acked) ==
    LET bdp == BwTimesRtt(b.full_bandwidth, b.min_rtt_us[2])
        target == (bdp * b.cwnd_gain) \div BBR_UNIT + 3 * t.mss_cache
    IN  Min(Max(Min(target, t.snd_cwnd + acked), 4), t.snd_cwnd_clamp)

\* C9 as stated: for every sample event with acked > 0 in which min_rtt is
\* known (a positive duration) and the bandwidth estimate is non-zero, in any
\* phase, the resulting window equals the reference window.
C9_WindowIsReferenceInAnyPhase ==
    [][ (/\ last'.op = "bbr3_main"
         /\ last'.acked_sacked > 0
         /\ ModelKnown(bbr')
         /\ ULt(<< 0, 0 >>, bbr'.min_rtt_us)) =>
            tp'.snd_cwnd = ReferenceWindow(bbr', tp, last'.acked_sacked) ]_vars

\* C9 (amended): for every sample event with acked > 0 in which min_rtt is
\* known and the bandwidth estimate is non-zero, the resulting window equals
\* the reference window when the phase the event leaves the estimator in is
\* not STARTUP, and prior_window + acked, floored and capped, when it is.
C9_WindowIsReferenceOutsideStartup ==
    [][ (/\ last'.op = "bbr3_main"
         /\ last'.acked_sacked > 0
         /\ ModelKnown(bbr')) =>
            tp'.snd_cwnd =
                IF bbr'.mode = BBR_STARTUP
                THEN AckedWindow(tp, last'.acked_sacked)
                ELSE ReferenceWindow(bbr', tp, last'.acked_sacked) ]_vars

\* a sample event outside STARTUP has just set the window to the BDP target,
\* which was below prior_window + acked and below the maximum
C9_Witness ==
    /\ last.op = "bbr3_main"
    /\ last.acked_sacked > 0
    /\ bbr.mode # BBR_STARTUP
    /\ ModelKnown(bbr)
    /\ ULt(<< 0, 0 >>, bbr.min_rtt_us)
    /\ bbr.target_cwnd > 3 * tp.mss_cache
    /\ tp.snd_cwnd = bbr.target_cwnd
    /\ tp.snd_cwnd < tp.snd_cwnd_clamp

\* C10: after any sample event, in any phase, the applied congestion window
\* is <= max(prior_window + acked, 4).
C10_GrowthBoundedByAcked ==
    [][ last'.op = "bbr3_main" =>
            tp'.snd_cwnd <= Max(tp.snd_cwnd + last'.acked_sacked, 4) ]_vars

\* a sample event outside STARTUP has just computed a BDP target above
\* prior_window + acked, and the window stayed at prior_window + acked
C10_Witness ==
    /\ last.op = "bbr3_main"
    /\ last.acked_sacked > 0
    /\ bbr.mode # BBR_STARTUP
    /\ bbr.target_cwnd > tp.snd_cwnd
    /\ tp.snd_cwnd > 4
    /\ tp.snd_cwnd < tp.snd_cwnd_clamp

\* C11: for every sample event in which min_rtt is unknown or the bandwidth
\* estimate is zero, for any acked count (including 0) and any prior window
\* (including the initial window of bbr3_init), the resulting window is
\* prior_window + acked, floored at 4 segments and capped at the maximum.
C11_FallbackIsAckedWindow ==
    [][ (last'.op = "bbr3_main" /\ ~ModelKnown(bbr')) =>
            tp'.snd_cwnd = AckedWindow(tp, last'.acked_sacked) ]_vars

\* the value undo_window would return in the current state
UndoWindow == bbr3_undo_cwnd(bbr, tp)

\* the callbacks that only read: undo_window and the diagnostic accessors
Accessors == { "bbr3_undo_cwnd", "bbr3_ssthresh", "bbr3_get_info" }

\* C12 as stated: undo_window returns exactly max(current window, prior_cwnd);
\* calling it, bbr3_get_info or bbr3_ssthresh changes no estimator or
\* transport state; and the result of undo_window is the same for all calls
\* made without an intervening sample event.
C12_UndoStableWithoutSample ==
    [][ /\ last'.op = "bbr3_undo_cwnd" =>
                last'.ret = Max(tp.snd_cwnd, bbr.prior_cwnd)
        /\ last'.op \in Accessors => (bbr' = bbr /\ tp' = tp)
        /\ last'.op # "bbr3_main" =>
                bbr3_undo_cwnd(bbr', tp') = UndoWindow ]_vars

\* C12 (amended): undo_window returns exactly max(current window, prior_cwnd);
\* calling it, bbr3_get_info or bbr3_ssthresh changes no estimator or
\* transport state; and the result of undo_window is the same for all calls
\* made without an intervening sample event or window-reduction event.
C12_UndoStableWithoutEvent ==
    [][ /\ last'.op = "bbr3_undo_cwnd" =>
                last'.ret = Max(tp.snd_cwnd, bbr.prior_cwnd)
        /\ last'.op \in Accessors => (bbr' = bbr /\ tp' = tp)
        /\ last'.op \notin { "bbr3_main", "bbr3_cwnd_event" } =>
                bbr3_undo_cwnd(bbr', tp') = UndoWindow ]_vars

\* undo_window has just returned the snapshot, which is above the window
C12_Witness ==
    /\ last.op = "bbr3_undo_cwnd"
    /\ last.ret = bbr.prior_cwnd
    /\ bbr.prior_cwnd > tp.snd_cwnd
    /\ tp.snd_cwnd >= 4

\* C13: whenever the host signals an event through bbr3_cwnd_event, prior_cwnd
\* is set to the congestion window at the moment of the call, so that a later
\* undo_window returns at least that window; this holds for every signalled
\* event, whatever its kind and whether or not the connection is
\* application-limited.
C13_EveryEventSnapshots ==
    [][ last'.op = "bbr3_cwnd_event" =>
            /\ bbr'.prior_cwnd = tp.snd_cwnd
            /\ bbr3_undo_cwnd(bbr', tp') >= tp.snd_cwnd ]_vars

\* C14: while the phase is PROBE_BW, pacing_gain cycles through the gain
\* sequence 5/4, 3/4, 1, 1, 1, 1, 1, 1: over any unbounded run of sample
\* events spent in PROBE_BW, pacing_gain repeatedly takes the value above 1x
\* (probing) and the value below 1x (draining).
C14_ProbeBwGainCycles ==
    <>[](bbr.mode = BBR_PROBE_BW) =>
        /\ []<>(bbr.pacing_gain = bbr_pacing_gain[1] /\ bbr.pacing_gain > BBR_UNIT)
        /\ []<>(bbr.pacing_gain = bbr_pacing_gain[2] /\ bbr.pacing_gain < BBR_UNIT)

\* in PROBE_BW the pacing gain is 1x, in every reachable state
ProbeBwGainIsUnit == bbr.mode = BBR_PROBE_BW => bbr.pacing_gain = BBR_UNIT

\* C15: bbr3_init yields phase STARTUP with min_rtt at the unknown sentinel,
\* full_bandwidth_reached false and full_bandwidth_count 0, and with
\* pacing_gain and cwnd_gain both equal to the high startup gain; and in every
\* reachable state whose phase is STARTUP both gains equal that high gain.
C15_StartupGainsHigh ==
    /\ last.op = "bbr3_init" =>
            /\ bbr.mode = BBR_STARTUP
            /\ bbr.min_rtt_us = U32_MAX
            /\ ~bbr.full_bandwidth_reached
            /\ bbr.full_bandwidth_count = 0
    /\ bbr.mode = BBR_STARTUP =>
            /\ bbr.pacing_gain = bbr_high_gain
            /\ bbr.cwnd_gain = bbr_high_gain

\* the plateau rule for the sample rs in the current state: a rate at or
\* above the plateau becomes the plateau and resets the stall counter; a rate
\* below it leaves the plateau and adds one to the counter, and the latch is
\* set exactly when the counter reaches 3
PlateauRule(rs) ==
    LET rate == BwSample(rs.delivered, rs.interval_us)
        b2 == bbr3_update_bw(bbr, rs)
    IN  IF ~ULt(rate, bbr.full_bandwidth)
        THEN /\ b2.full_bandwidth = rate
             /\ b2.full_bandwidth_count = 0
             /\ ~b2.full_bandwidth_reached
        ELSE /\ b2.full_bandwidth = bbr.full_bandwidth
             /\ b2.full_bandwidth_count = bbr.full_bandwidth_count + 1
             /\ b2.full_bandwidth_reached <=> b2.full_bandwidth_count = 3

\* C16: for every valid bandwidth sample processed while
\* full_bandwidth_reached is false: if the sample rate is >= the plateau, the
\* plateau is set to the sample rate and full_bandwidth_count to 0; otherwise
\* the plateau is unchanged and full_bandwidth_count increases by exactly 1;
\* full_bandwidth_reached becomes true exactly when the count reaches 3.
C16_PlateauFollowsSampleRate ==
    ~bbr.full_bandwidth_reached =>
        \A rs \in RateSamples : ~InvalidSample(rs) => PlateauRule(rs)

\* the plateau rule holds for every valid sample whose rate fits in 32 bits
PlateauRuleBelowWrap ==
    ~bbr.full_bandwidth_reached =>
        \A rs \in RateSamples :
            (~InvalidSample(rs) /\ BwSample(rs.delivered, rs.interval_us)[1] < 256) =>
                PlateauRule(rs)

\* C17: each sample event changes the phase at most once and evaluates the
\* exit condition of the phase it found, after that event's bandwidth and RTT
\* updates: STARTUP is left for DRAIN in the very event whose sample sets
\* full_bandwidth_reached, the phase entered in an event is not evaluated in
\* that event (DRAIN is kept even when packets in flight are already at or
\* below the drain target), so STARTUP to PROBE_BW takes at least two sample
\* events; no other callback changes the phase.
C17_OneTransitionPerEvent ==
    [][ /\ last'.op = "bbr3_main" =>
              /\ bbr.mode = BBR_STARTUP =>
                    bbr'.mode = IF bbr'.full_bandwidth_reached
                                THEN BBR_DRAIN
                                ELSE BBR_STARTUP
              /\ bbr.mode = BBR_DRAIN => bbr'.mode \in { BBR_DRAIN, BBR_PROBE_BW }
              /\ bbr.mode = BBR_PROBE_BW => bbr'.mode = BBR_PROBE_BW
        /\ last'.op # "bbr3_main" => bbr'.mode = bbr.mode ]_vars

\* a sample event has just set the latch and entered DRAIN, and DRAIN was kept
\* although the packets in flight were already at or below the drain target
C17_Witness ==
    /\ last.op = "bbr3_main"
    /\ bbr.mode = BBR_DRAIN
    /\ bbr.full_bandwidth_reached
    /\ bbr.full_bandwidth_count = 3
    /\ last.in_flight <= 2

\* the drain target for the window as it stands before the event
DrainTarget == Max(tp.snd_cwnd \div 2, 2)

\* C18: while the phase is DRAIN, a sample event moves the phase to PROBE_BW
\* if and only if the packets in flight at that event are <= the drain target
\* max(window / 2, 2), window being the congestion window before that event's
\* window update; if they are above the target, the phase and both gains are
\* left unchanged.
C18_DrainExit ==
    [][ (last'.op = "bbr3_main" /\ bbr.mode = BBR_DRAIN) =>
            IF last'.in_flight <= DrainTarget
            THEN bbr'.mode = BBR_PROBE_BW
            ELSE /\ bbr'.mode = BBR_DRAIN
                 /\ bbr'.pacing_gain = bbr.pacing_gain
                 /\ bbr'.cwnd_gain = bbr.cwnd_gain ]_vars

\* a sample event in DRAIN has just found the larger number of packets in
\* flight, which was at or below the drain target, and moved on to PROBE_BW
C18_Witness ==
    /\ last.op = "bbr3_main"
    /\ last.in_flight = InFlightHigh
    /\ bbr.mode = BBR_PROBE_BW
    /\ bbr.pacing_gain = BBR_UNIT
    /\ bbr.cwnd_gain = BBR_UNIT

\* C19: in every reachable state whose phase is DRAIN, pacing_gain is the
\* drain gain (256 * 1000 / 2885, strictly below 1x) and cwnd_gain stays high:
\* the STARTUP -> DRAIN transition does not lower cwnd_gain below the value it
\* had in STARTUP, and cwnd_gain is brought down to 1x only on the
\* DRAIN -> PROBE_BW transition.
C19_DrainGains ==
    /\ [](bbr.mode = BBR_DRAIN =>
            /\ bbr.pacing_gain = bbr_drain_gain
            /\ bbr.pacing_gain = (256 * 1000) \div 2885
            /\ bbr.pacing_gain < BBR_UNIT
            /\ bbr.cwnd_gain = bbr_high_gain
            /\ bbr.cwnd_gain > BBR_UNIT)
    /\ [][ /\ (bbr.mode = BBR_STARTUP /\ bbr'.mode = BBR_DRAIN) =>
                  bbr'.cwnd_gain >= bbr.cwnd_gain
           /\ (bbr'.cwnd_gain = BBR_UNIT /\ bbr.cwnd_gain # BBR_UNIT) =>
                  (bbr.mode = BBR_DRAIN /\ bbr'.mode = BBR_PROBE_BW) ]_vars

\* a sample event in DRAIN has just kept DRAIN, with the drain gain for
\* pacing and the high gain for the window
C19_Witness ==
    /\ last.op = "bbr3_main"
    /\ last.in_flight = InFlightHigh
    /\ bbr.mode = BBR_DRAIN
    /\ bbr.pacing_gain = bbr_drain_gain
    /\ bbr.cwnd_gain = bbr_high_gain

\* C20: full_bandwidth_reached is a latch that also freezes the model: once it
\* is true, no later event clears it or changes full_bandwidth or
\* full_bandwidth_count, so the bandwidth fed to the window computation is
\* constant from then on, and full_bandwidth_count never exceeds 3.
C20_LatchFreezesModel ==
    /\ [](bbr.full_bandwidth_count <= 3)
    /\ [](bbr.full_bandwidth_reached => bbr.full_bandwidth_count = 3)
    /\ [][ bbr.full_bandwidth_reached =>
              /\ bbr'.full_bandwidth_reached
              /\ bbr'.full_bandwidth = bbr.full_bandwidth
              /\ bbr'.full_bandwidth_count = bbr.full_bandwidth_count ]_vars

\* the latch is set and a later sample event has just been processed: the
\* connection has moved past DRAIN with the plateau it had at the latch
C20_Witness ==
    /\ last.op = "bbr3_main"
    /\ bbr.full_bandwidth_reached
    /\ bbr.full_bandwidth_count = 3
    /\ bbr.full_bandwidth # << 0, 0 >>
    /\ bbr.mode = BBR_PROBE_BW
    /\ bbr.target_cwnd > 0

====
